---- MODULE Spec2Model ----
(***************************************************************************)
(* Model of ReasonParser (src/reason_parser.py): the registry of violation *)
(* categories, its mutations, the three-pass classification and the result *)
(* cache.                                                                  *)
(*                                                                         *)
(* A Python str is a sequence of one-character strings; a category list is *)
(* a sequence of patterns; the pattern dict is a function whose domain is  *)
(* the set of category names.                                              *)
(***************************************************************************)
EXTENDS Integers, Sequences, FiniteSets, TLC

VARIABLES
    violation_patterns,        \* self.violation_patterns: name -> pattern list
    is_using_custom_patterns,  \* self.is_using_custom_patterns
    violation_cache,           \* self.violation_cache: hash(text) -> categories
    custom_descriptions,       \* self._custom_descriptions (or not yet set)
    jieba_words,               \* words given to jieba.add_word so far
    last,                      \* the last call: operation, return value, logged error
    in_flight,                 \* the calls that have started and not yet returned
    peer,                      \* a second ReasonParser of the same process
    pattern_file               \* the file save_custom_patterns writes

vars == <<violation_patterns, is_using_custom_patterns, violation_cache,
          custom_descriptions, jieba_words, last, in_flight, peer, pattern_file>>

-----------------------------------------------------------------------------
(* Bounds of the model.                                                    *)

\* longest pattern list handed to a mutation
MaxPatterns == 2

-----------------------------------------------------------------------------
(* Strings.                                                                *)

Range(s) == {s[i] : i \in DOMAIN s}

\* the empty dict
EmptyDict == [x \in {} |-> {}]

\* dict d with key k set to v (d[k] = v)
DictSet(d, k, v) == [x \in (DOMAIN d) \cup {k} |-> IF x = k THEN v ELSE d[x]]

\* dict d without key k (del d[k])
DictDel(d, k) == [x \in (DOMAIN d) \ {k} |-> d[x]]

\* str.lower() on one character; "S" is the capital sigma, "s" the small
\* sigma and "z" the final small sigma
LowerChar(ch) ==
    CASE ch = "A" -> "a"
      [] ch = "B" -> "b"
      [] ch = "S" -> "s"
      [] OTHER -> ch

\* str.lower(): character by character, but for the capital sigma, which
\* becomes the final small sigma when a cased letter is before it and none
\* is after it
Lower(s) ==
    LET Cased == {"A", "B", "S", "a", "b", "s", "z"}
    IN  [i \in DOMAIN s |->
            IF /\ s[i] = "S"
               /\ i > 1
               /\ s[i - 1] \in Cased
               /\ (i = Len(s) \/ s[i + 1] \notin Cased)
            THEN "z"
            ELSE LowerChar(s[i])]

\* characters str.strip() removes and \s matches
Whitespace == {" "}

\* "not s or not s.strip()"
IsBlank(s) == \A i \in DOMAIN s : s[i] \in Whitespace

\* "sub in s" for two strings
Contains(s, sub) ==
    \E i \in 0..(Len(s) - Len(sub)) :
        \A k \in 1..Len(sub) : s[i + k] = sub[k]

\* a value that is not a str (isinstance(pattern, str) is false)
NotAString == <<"<int>">>

IsInstanceStr(p) == p # NotAString

-----------------------------------------------------------------------------
(* Regular expressions: the fragment of Python's re made of literal        *)
(* characters, ".", the quantifiers "*" and "?" (greedy or lazy) and an    *)
(* opening parenthesis that is never closed.                               *)

Quantifiers == {"*", "?"}

\* re.compile(pattern) does not raise re.error
\*   "("            : missing ), unterminated subpattern
\*   "*a", "?a"     : nothing to repeat
\*   "a**", "a*??"  : multiple repeat
ReCompiles(p) ==
    /\ \A i \in DOMAIN p : p[i] # "("
    /\ \A i \in DOMAIN p : p[i] \in Quantifiers =>
          /\ i > 1
          /\ \/ p[i - 1] \notin Quantifiers
             \/ /\ p[i] = "?"
                /\ i > 2
                /\ p[i - 2] \notin Quantifiers

\* the items of a compiled pattern from position i on: an atom and how often
\* it repeats ("1": once, "?": at most once, "*": any number of times)
RECURSIVE ReItems(_, _)
ReItems(p, i) ==
    IF i > Len(p) THEN <<>>
    ELSE LET q    == IF i < Len(p) /\ p[i + 1] \in Quantifiers THEN p[i + 1] ELSE "1"
             lazy == q # "1" /\ i + 1 < Len(p) /\ p[i + 2] = "?"
             next == i + 1 + (IF q # "1" THEN 1 ELSE 0) + (IF lazy THEN 1 ELSE 0)
         IN  <<[atom |-> p[i], rep |-> q]>> \o ReItems(p, next)

\* one character of the text against one atom, under re.IGNORECASE, which
\* compares lower-cased characters and takes the three sigmas for one
AtomMatches(atom, ch) ==
    LET IgnoreCase(c) == IF c \in {"S", "s", "z"} THEN "s" ELSE LowerChar(c)
    IN  IF atom = "." THEN ch # "\n" ELSE IgnoreCase(atom) = IgnoreCase(ch)

\* positions the matcher can be at after one item, having been at one of S
\* (position k is "before text[k]")
ReStep(item, text, S) ==
    LET one == {k + 1 : k \in {j \in S : j <= Len(text) /\ AtomMatches(item.atom, text[j])}}
        run == {k \in 1..(Len(text) + 1) :
                   \E j \in S : j <= k /\ \A m \in j..(k - 1) : AtomMatches(item.atom, text[m])}
    IN  CASE item.rep = "1" -> one
          [] item.rep = "?" -> S \cup one
          [] item.rep = "*" -> run

RECURSIVE ReRun(_, _, _)
ReRun(items, text, S) ==
    IF items = <<>> THEN S
    ELSE ReRun(Tail(items), text, ReStep(Head(items), text, S))

\* re.search(pattern, text, re.IGNORECASE): "match", "nomatch", or "error"
\* when the pattern does not compile (re.error)
ReSearch(p, text) ==
    IF ~ReCompiles(p) THEN "error"
    ELSE IF ReRun(ReItems(p, 1), text, 1..(Len(text) + 1)) # {} THEN "match"
    ELSE "nomatch"

\* the items of a compiled pattern with their laziness ("*?", "??")
RECURSIVE ReParse(_, _)
ReParse(p, i) ==
    IF i > Len(p) THEN <<>>
    ELSE LET q    == IF i < Len(p) /\ p[i + 1] \in Quantifiers THEN p[i + 1] ELSE "1"
             lazy == q # "1" /\ i + 1 < Len(p) /\ p[i + 2] = "?"
             next == i + 1 + (IF q # "1" THEN 1 ELSE 0) + (IF lazy THEN 1 ELSE 0)
         IN  <<[atom |-> p[i], rep |-> q, lazy |-> lazy]>> \o ReParse(p, next)

\* the positions at which a match that starts at pos can end, in the order
\* the backtracking matcher comes to them: a greedy item takes a character
\* before it tries to go on without it, a lazy item the other way round
RECURSIVE ReEnds(_, _, _)
ReEnds(items, text, pos) ==
    IF items = <<>> THEN <<pos>>
    ELSE LET item == Head(items)
             hit  == pos <= Len(text) /\ AtomMatches(item.atom, text[pos])
             skip == ReEnds(Tail(items), text, pos)
             take == IF ~hit THEN <<>>
                     ELSE ReEnds(IF item.rep = "*" THEN items ELSE Tail(items), text, pos + 1)
         IN  CASE item.rep = "1" -> take
               [] item.lazy -> skip \o take
               [] OTHER -> take \o skip

\* the matches of a scan that goes on at position pos: leftmost first, each
\* scan starting where the match before it ended; after an empty match the
\* next match may not end where the empty one did (barred, 0 when none)
RECURSIVE ReScan(_, _, _, _)
ReScan(items, text, pos, barred) ==
    IF pos > Len(text) + 1 THEN <<>>
    ELSE LET ends == SelectSeq(ReEnds(items, text, pos), LAMBDA e : e # barred)
         IN  IF ends = <<>> THEN ReScan(items, text, pos + 1, barred)
             ELSE <<[start |-> pos - 1, end |-> ends[1] - 1]>>
                      \o ReScan(items, text, ends[1], IF ends[1] = pos THEN pos ELSE 0)

\* re.finditer(pattern, text, re.IGNORECASE): the spans (match.start(),
\* match.end()) of its matches, or "error" when the pattern does not compile
ReFindIter(p, text) ==
    IF ~ReCompiles(p) THEN [raised |-> "error", spans |-> <<>>]
    ELSE [raised |-> "", spans |-> ReScan(ReParse(p, 1), text, 1, 0)]

-----------------------------------------------------------------------------
(* Keywords derived from a pattern.                                        *)

\* the characters re.sub(r'[.*+?^${}()|[\]\\]', '', pattern) deletes
RegexSpecial == {".", "*", "+", "?", "^", "$", "{", "}", "(", ")", "|", "[", "]", "\\"}

\* the parts of s between the characters re.split(r'[、，,\s]+', cleaned)
\* splits on, in order
RECURSIVE SplitParts(_, _, _)
SplitParts(s, i, cur) ==
    IF i > Len(s) THEN <<cur>>
    ELSE IF s[i] \in {","} \cup Whitespace
         THEN <<cur>> \o SplitParts(s, i + 1, <<>>)
         ELSE SplitParts(s, i + 1, Append(cur, s[i]))

\* shortest keyword kept
MinKeywordLen == 2

\* _extract_keywords_from_pattern(pattern), as the list it returns
ExtractKeywords(p) ==
    LET cleaned == SelectSeq(p, LAMBDA ch : ch \notin RegexSpecial)
        parts   == SplitParts(cleaned, 1, <<>>)
    IN  SelectSeq(parts, LAMBDA part : Len(part) >= MinKeywordLen)

-----------------------------------------------------------------------------
(* The built-in rule set (src/config.py), cut down to one category, 涉黄,   *)
(* written with "a" for 涉 and "b" for 黄: its name is also its first       *)
(* pattern, and its second pattern is a gap pattern.                       *)

\* the category 涉黄
SheHuang == <<"a", "b">>

\* the pattern r'涉黄'
PatLiteral == <<"a", "b">>
\* the pattern r'涉.*?黄'
PatGap == <<"a", ".", "*", "?", "b">>
\* a pattern re.compile rejects
PatInvalid == <<"(">>

\* VIOLATION_PATTERNS
VIOLATION_PATTERNS == [n \in {SheHuang} |-> <<PatLiteral, PatGap>>]

\* the keyword_mapping literal of _keyword_matching (none of 涉黄's keywords
\* is its name)
DefaultKeywordMapping == [n \in {SheHuang} |-> {<<"b", "b">>}]

\* the semantic_patterns literal of _semantic_matching (none of 涉黄's
\* semantic patterns is in VIOLATION_PATTERNS)
DefaultSemanticPatterns == [n \in {SheHuang} |-> <<<<"b", ".", "*", "?", "a">>>>]

-----------------------------------------------------------------------------
(* Inputs.                                                                 *)

\* a category name no built-in category has
CustomName == <<"c">>
\* a name that is whitespace only
BlankName == <<" ">>

Names == {SheHuang, CustomName}
InputNames == Names \cup {BlankName}

SeqsUpTo(S, n) == UNION {[1..k -> S] : k \in 0..n}

\* pattern lists: every list of at most MaxPatterns pattern strings (one that
\* compiles, one that does not), and a list holding a value that is not a
\* string
PatternLists == SeqsUpTo({PatGap, PatInvalid}, MaxPatterns) \cup {<<NotAString>>}

\* pattern maps (the validation of a map goes category by category): the
\* empty map, the maps of one category with any pattern list, the maps of the
\* built-in category with one compilable pattern and the custom category with
\* any pattern list, and two maps that have a blank name
PatternMaps ==
    UNION {[S -> PatternLists] : S \in {T \in SUBSET Names : Cardinality(T) <= 1}}
        \cup {[n \in Names |-> IF n = CustomName THEN p ELSE <<PatGap>>] : p \in PatternLists}
        \cup {[n \in S |-> <<PatGap>>] : S \in {{BlankName}, {CustomName, BlankName}}}

\* the arguments of add_violation_type and update_violation_patterns: a name
\* of the model with any pattern list, or a blank name
NamedLists ==
    (Names \X PatternLists) \cup {<<BlankName, <<PatGap>>>>}

\* texts handed to parse_reason: empty, whitespace only, "ab" (the built-in
\* patterns and PatGap hit it) and "bb" (only a built-in keyword is in it)
Texts == {<<>>, <<" ">>, <<"a", "b">>, <<"b", "b">>}

-----------------------------------------------------------------------------
(* Classification: the three passes of parse_reason.                       *)

\* what jieba.lcut(text) can do: raise, or cut the text into consecutive
\* non-empty words (which cut it makes depends on jieba's dictionary)
RECURSIVE Segmentations(_)
Segmentations(text) ==
    IF text = <<>> THEN {<<>>}
    ELSE UNION {{<<SubSeq(text, 1, k)>> \o rest :
                    rest \in Segmentations(SubSeq(text, k + 1, Len(text)))} :
                k \in 1..Len(text)}

JiebaOutcomes(text) ==
    {[raised |-> TRUE, words |-> <<>>]}
        \cup {[raised |-> FALSE, words |-> w] : w \in Segmentations(text)}

\* the regex pass with the try around the loop over a category's patterns: a
\* pattern that raises re.error ends the category's loop
RegexPass_aborting(vp, text) ==
    {n \in DOMAIN vp :
        \E i \in DOMAIN vp[n] :
            /\ ReSearch(vp[n][i], text) = "match"
            /\ \A k \in 1..(i - 1) : ReSearch(vp[n][k], text) # "error"}

\* the regex pass of parse_reason: a category matches on its first pattern
\* that hits; a pattern that raises re.error is skipped
RegexPass(vp, text) ==
    {n \in DOMAIN vp : \E i \in DOMAIN vp[n] : ReSearch(vp[n][i], text) = "match"}

\* keyword_mapping of _keyword_matching: the literal when the defaults are in
\* use, else the keywords of each category's patterns, for the categories
\* that have any
KeywordMapping(vp, custom) ==
    IF ~custom THEN DefaultKeywordMapping
    ELSE LET kw(n) == UNION {Range(ExtractKeywords(vp[n][i])) : i \in DOMAIN vp[n]}
         IN  [n \in {m \in DOMAIN vp : kw(m) # {}} |-> kw(n)]

\* _keyword_matching(text) testing only whether a keyword is a token
KeywordPass_tokens_only(vp, custom, text, jieba) ==
    LET mapping  == KeywordMapping(vp, custom)
        word_set == {Lower(jieba.words[i]) : i \in DOMAIN jieba.words}
    IN  IF jieba.raised THEN {}
        ELSE {n \in DOMAIN mapping : \E k \in mapping[n] : k \in word_set}

\* _keyword_matching(text): nothing when jieba raises
KeywordPass(vp, custom, text, jieba) ==
    LET mapping  == KeywordMapping(vp, custom)
        word_set == {Lower(jieba.words[i]) : i \in DOMAIN jieba.words}
    IN  IF jieba.raised THEN {}
        ELSE {n \in DOMAIN mapping :
                 \E k \in mapping[n] : Contains(Lower(text), k) \/ k \in word_set}

\* '.*?' in p
HasGap(p) == Contains(p, <<".", "*", "?">>)

\* semantic_patterns of _semantic_matching
SemanticPatterns(vp, custom) ==
    IF ~custom THEN DefaultSemanticPatterns
    ELSE [n \in DOMAIN vp |-> SelectSeq(vp[n], HasGap)]

\* _semantic_matching using its built-in table whatever the flag says
SemanticPass_builtin_always(vp, custom, text) ==
    {n \in DOMAIN DefaultSemanticPatterns :
        \E i \in DOMAIN DefaultSemanticPatterns[n] :
            ReSearch(DefaultSemanticPatterns[n][i], text) = "match"}

\* _semantic_matching(text)
SemanticPass(vp, custom, text) ==
    LET sem == SemanticPatterns(vp, custom)
    IN  {n \in DOMAIN sem : \E i \in DOMAIN sem[n] : ReSearch(sem[n][i], text) = "match"}

\* the result of the keyword pass left out of the union
Classify_without_keywords(vp, custom, text, jieba) ==
    RegexPass(vp, text) \cup SemanticPass(vp, custom, text)

\* the categories parse_reason computes on a cache miss
Classify(vp, custom, text, jieba) ==
    RegexPass(vp, text) \cup KeywordPass(vp, custom, text, jieba)
        \cup SemanticPass(vp, custom, text)

\* hash(reason_text): a 64-bit hash, which tells the texts of the model apart
RECURSIVE Hash(_)
Hash(s) ==
    IF s = <<>> THEN 0
    ELSE (CASE Head(s) = "a" -> 1
            [] Head(s) = "b" -> 2
            [] Head(s) = " " -> 3
            [] OTHER -> 4) + 5 * Hash(Tail(s))

-----------------------------------------------------------------------------
(* The parser object and what a call hands back.                           *)

\* self._custom_descriptions: not set yet (hasattr is false), a dict, or a
\* value loaded from a document that is no dict (JSON null)
DescUnset == [kind |-> "unset", map |-> EmptyDict]
DescNull == [kind |-> "null", map |-> EmptyDict]
DescDict(m) == [kind |-> "dict", map |-> m]

\* the fields of a parser
Parser(vp, custom, cache, desc, words) ==
    [vp |-> vp, custom |-> custom, cache |-> cache, desc |-> desc, words |-> words]

\* the outcome of a call on a parser: the parser afterwards, the value
\* returned ("True", "False", "None", "list", or "raise" for an exception
\* that leaves the call), the error logged or raised ("" when none) and, for
\* parse_reason, the categories returned; for extract_violation_details, the
\* detail records
Outcome(self, ret, err, cats) == [self |-> self, ret |-> ret, err |-> err, cats |-> cats]

Succeeds(self) == Outcome(self, "True", "", {})
Fails(self, err) == Outcome(self, "False", err, {})

\* clear_cache() forgotten: the cache keeps its entries
clear_cache_skipped(self) == self

\* clear_cache()
clear_cache(self) == [self EXCEPT !.cache = EmptyDict]

\* _init_jieba() on the pattern map vp: the words jieba knows afterwards
\* (default_words is cut down to 涉黄)
InitJiebaWords(words, vp) ==
    words \cup {SheHuang} \cup DOMAIN vp
          \cup UNION {UNION {Range(ExtractKeywords(vp[n][i])) : i \in DOMAIN vp[n]} :
                         n \in DOMAIN vp}

_init_jieba(self) == [self EXCEPT !.words = InitJiebaWords(self.words, self.vp)]

\* the validation loop leaving after its first pattern
PatternListError_first_only(patterns) ==
    IF patterns = <<>> THEN ""
    ELSE IF ~IsInstanceStr(patterns[1]) THEN "pattern is not a string"
    ELSE IF ~ReCompiles(patterns[1]) THEN "invalid regular expression"
    ELSE ""

\* the validation loop over a pattern list: the error of the first pattern
\* that is no string or does not compile, "" when there is none
PatternListError(patterns) ==
    LET bad == {i \in DOMAIN patterns :
                   ~IsInstanceStr(patterns[i]) \/ ~ReCompiles(patterns[i])}
    IN  IF bad = {} THEN ""
        ELSE LET i == CHOOSE j \in bad : \A k \in bad : j <= k
             IN  IF ~IsInstanceStr(patterns[i]) THEN "pattern is not a string"
                 ELSE "invalid regular expression"

\* the order in which the categories of a pattern map are visited
NameOrder == <<SheHuang, CustomName, BlankName>>

\* the validation loop of set_custom_patterns over the categories of a map:
\* the error of the first category that fails, "" when there is none
RECURSIVE PatternMapError(_, _)
PatternMapError(m, i) ==
    IF i > Len(NameOrder) THEN ""
    ELSE LET n == NameOrder[i]
         IN  IF n \notin DOMAIN m THEN PatternMapError(m, i + 1)
             ELSE IF IsBlank(n) THEN "blank category name"
             ELSE IF PatternListError(m[n]) # "" THEN PatternListError(m[n])
             ELSE PatternMapError(m, i + 1)

-----------------------------------------------------------------------------
(* The operations of ReasonParser.                                         *)

\* ReasonParser(custom_patterns): the parser after construction; has_custom
\* is "custom_patterns is not None"
create_reason_parser(has_custom, custom_patterns) ==
    LET vp == IF has_custom THEN custom_patterns ELSE VIOLATION_PATTERNS
    IN  _init_jieba(Parser(vp, has_custom, EmptyDict, DescUnset, {}))

\* self.default_patterns
default_patterns == VIOLATION_PATTERNS

\* set_custom_patterns updating the current map instead of replacing it
set_custom_patterns_merging(self, custom_patterns) ==
    LET err == PatternMapError(custom_patterns, 1)
        merged == [n \in (DOMAIN self.vp) \cup (DOMAIN custom_patterns) |->
                      IF n \in DOMAIN custom_patterns THEN custom_patterns[n] ELSE self.vp[n]]
    IN  IF err # "" THEN Fails(self, err)
        ELSE Succeeds(_init_jieba(clear_cache([self EXCEPT !.vp = merged, !.custom = TRUE])))

\* set_custom_patterns(custom_patterns)
set_custom_patterns(self, custom_patterns) ==
    LET err == PatternMapError(custom_patterns, 1)
    IN  IF err # "" THEN Fails(self, err)
        ELSE Succeeds(_init_jieba(clear_cache(
                 [self EXCEPT !.vp = custom_patterns, !.custom = TRUE])))

\* add_violation_type(violation_type, patterns, description); the description
\* "" stands for None as well (both are falsy)
add_violation_type(self, violation_type, patterns, description) ==
    IF IsBlank(violation_type) THEN Fails(self, "blank category name")
    ELSE IF patterns = <<>> THEN Fails(self, "empty pattern list")
    ELSE IF PatternListError(patterns) # "" THEN Fails(self, PatternListError(patterns))
    ELSE LET keywords == UNION {Range(ExtractKeywords(patterns[i])) : i \in DOMAIN patterns}
             added == [self EXCEPT !.vp = DictSet(self.vp, violation_type, patterns),
                                   !.custom = TRUE,
                                   !.words = self.words \cup {violation_type} \cup keywords]
         IN  IF description = "" THEN Succeeds(clear_cache(added))
             ELSE IF self.desc.kind = "null"
                  \* item assignment on a value that is no dict raises TypeError,
                  \* after the category was stored and before the cache is cleared
                  THEN Fails(added, "TypeError")
             ELSE Succeeds(clear_cache(
                      [added EXCEPT !.desc =
                          DescDict(DictSet(self.desc.map, violation_type, description))]))

\* remove_violation_type(violation_type)
remove_violation_type(self, violation_type) ==
    IF violation_type \notin DOMAIN self.vp THEN Fails(self, "category does not exist")
    ELSE LET removed == [self EXCEPT !.vp = DictDel(self.vp, violation_type)]
         IN  IF self.desc.kind = "null"
             \* "violation_type in self._custom_descriptions" raises TypeError
             \* on a value that is no container, after the del
             THEN Fails(removed, "TypeError")
             ELSE IF violation_type \in DOMAIN self.desc.map
                  THEN Succeeds(clear_cache(
                           [removed EXCEPT !.desc =
                               DescDict(DictDel(self.desc.map, violation_type))]))
             ELSE Succeeds(clear_cache(removed))

\* update_violation_patterns without its existence check
update_violation_patterns_upsert(self, violation_type, patterns) ==
    IF PatternListError(patterns) # "" THEN Fails(self, PatternListError(patterns))
    ELSE Succeeds(clear_cache(
             [self EXCEPT !.vp = DictSet(self.vp, violation_type, patterns),
                          !.custom = TRUE]))

\* update_violation_patterns(violation_type, patterns)
update_violation_patterns(self, violation_type, patterns) ==
    IF violation_type \notin DOMAIN self.vp THEN Fails(self, "category does not exist")
    ELSE IF PatternListError(patterns) # "" THEN Fails(self, PatternListError(patterns))
    ELSE Succeeds(clear_cache(
             [self EXCEPT !.vp = DictSet(self.vp, violation_type, patterns),
                          !.custom = TRUE]))

\* reset_to_default_patterns putting the defaults back without dropping the
\* other categories
reset_to_default_patterns_keeping(self) ==
    Outcome(_init_jieba(clear_cache(
                [self EXCEPT !.vp = [n \in (DOMAIN self.vp) \cup (DOMAIN default_patterns) |->
                                        IF n \in DOMAIN default_patterns
                                        THEN default_patterns[n] ELSE self.vp[n]],
                             !.custom = FALSE,
                             !.desc = IF self.desc.kind = "unset" THEN DescUnset
                                      ELSE DescDict(EmptyDict)])),
            "None", "", {})

\* reset_to_default_patterns()
reset_to_default_patterns(self) ==
    Outcome(_init_jieba(clear_cache(
                [self EXCEPT !.vp = default_patterns,
                             !.custom = FALSE,
                             !.desc = IF self.desc.kind = "unset" THEN DescUnset
                                      ELSE DescDict(EmptyDict)])),
            "None", "", {})

\* get_current_patterns()
get_current_patterns(self) == self.vp

\* get_cache_stats(): nothing counts hits or attempts, so the rate is 0 / 1
get_cache_stats(self) ==
    [cache_size |-> Cardinality(DOMAIN self.cache), cache_hit_rate |-> 0]

\* get_pattern_info()
get_pattern_info(self) ==
    [is_using_custom_patterns |-> self.custom,
     total_violation_types |-> Cardinality(DOMAIN self.vp),
     violation_types |-> DOMAIN self.vp,
     pattern_counts |-> [n \in DOMAIN self.vp |-> Len(self.vp[n])],
     cache_stats |-> get_cache_stats(self)]

\* load_custom_patterns storing the document's descriptions before it sets
\* the patterns
load_custom_patterns_descriptions_first(self, doc) ==
    CASE doc.kind = "missing" -> Fails(self, "file does not exist")
      [] doc.kind = "unparseable" -> Fails(self, "JSONDecodeError")
      [] doc.kind = "no patterns" -> Fails(self, "patterns field missing")
      [] OTHER ->
            LET described == IF doc.descriptions.kind = "unset" THEN self
                             ELSE [self EXCEPT !.desc = doc.descriptions]
                set == set_custom_patterns(described, doc.patterns)
            IN  IF set.ret # "True" THEN Fails(set.self, set.err)
                ELSE Succeeds(set.self)

\* load_custom_patterns(filepath), doc being what the file holds: no file,
\* no JSON document, a document without 'patterns', or a document with
\* 'patterns' and maybe 'descriptions' (DescUnset: no such key)
load_custom_patterns(self, doc) ==
    CASE doc.kind = "missing" -> Fails(self, "file does not exist")
      [] doc.kind = "unparseable" -> Fails(self, "JSONDecodeError")
      [] doc.kind = "no patterns" -> Fails(self, "patterns field missing")
      [] OTHER ->
            LET set == set_custom_patterns(self, doc.patterns)
            IN  IF set.ret # "True" THEN Fails(set.self, set.err)
                ELSE IF doc.descriptions.kind = "unset" THEN Succeeds(set.self)
                ELSE Succeeds([set.self EXCEPT !.desc = doc.descriptions])

\* pattern_data of save_custom_patterns as json.load reads it back: JSON
\* carries a dict of strings and lists of strings, and null, over as they
\* are; a parser without _custom_descriptions saves an empty dict
SavedDocument(self) ==
    [kind |-> "rules",
     patterns |-> self.vp,
     descriptions |-> IF self.desc.kind = "unset" THEN DescDict(EmptyDict) ELSE self.desc,
     is_custom |-> self.custom]

\* save_custom_patterns(filepath), writable telling whether open(filepath, 'w')
\* succeeds; the parser is left as it is
save_custom_patterns(self, writable) ==
    IF writable THEN Succeeds(self) ELSE Fails(self, "OSError")

\* parse_reason without its cache
parse_reason_uncached(self, reason_text, jieba) ==
    IF IsBlank(reason_text) THEN Outcome(self, "list", "", {})
    ELSE Outcome(self, "list", IF jieba.raised THEN "keyword matching failed" ELSE "",
                 Classify(self.vp, self.custom, reason_text, jieba))

\* parse_reason testing "not reason_text" only: a whitespace-only text goes
\* through the passes and into the cache
parse_reason_empty_only(self, reason_text, jieba) ==
    IF reason_text = <<>> THEN Outcome(self, "list", "", {})
    ELSE LET cache_key == Hash(reason_text)
         IN  IF cache_key \in DOMAIN self.cache
             THEN Outcome(self, "list", "", self.cache[cache_key])
             ELSE LET result == Classify(self.vp, self.custom, reason_text, jieba)
                  IN  Outcome([self EXCEPT !.cache = DictSet(self.cache, cache_key, result)],
                              "list", IF jieba.raised THEN "keyword matching failed" ELSE "",
                              result)

\* parse_reason(reason_text), jieba being what jieba.lcut does during the call
parse_reason(self, reason_text, jieba) ==
    IF IsBlank(reason_text) THEN Outcome(self, "list", "", {})
    ELSE LET cache_key == Hash(reason_text)
         IN  IF cache_key \in DOMAIN self.cache
             THEN Outcome(self, "list", "", self.cache[cache_key])
             ELSE LET result == Classify(self.vp, self.custom, reason_text, jieba)
                  IN  Outcome([self EXCEPT !.cache = DictSet(self.cache, cache_key, result)],
                              "list", IF jieba.raised THEN "keyword matching failed" ELSE "",
                              result)

\* the factor of "matches / len(patterns) * 2"
ConfidenceFactor == 2

\* a confidence: the fraction num / den (den > 0)
Fraction(num, den) == [num |-> num, den |-> den]

\* _calculate_confidence(text, violation_type): min(matches / len(patterns) * 2, 1.0)
\* as a fraction, or the exception the division raises on an empty list
_calculate_confidence(self, text, violation_type) ==
    IF violation_type \notin DOMAIN self.vp THEN [raised |-> "", value |-> Fraction(0, 1)]
    ELSE LET patterns == self.vp[violation_type]
             matches  == Cardinality({i \in DOMAIN patterns :
                                         ReSearch(patterns[i], text) = "match"})
         IN  IF Len(patterns) = 0
             THEN [raised |-> "ZeroDivisionError", value |-> Fraction(0, 1)]
             ELSE IF matches * ConfidenceFactor >= Len(patterns)
                  THEN [raised |-> "", value |-> Fraction(1, 1)]
             ELSE [raised |-> "", value |-> Fraction(matches * ConfidenceFactor, Len(patterns))]

\* the characters kept on each side of a match: match.start() - 20, match.end() + 20
EvidenceContext == 20

\* the evidence fragments kept: evidence_parts[:3]
MaxEvidence == 3

\* the delimiter " | "
EvidenceDelimiter == <<" ", "|", " ">>

\* text[start:end].strip() around a match
Context(text, span) ==
    LET start == IF span.start - EvidenceContext > 0 THEN span.start - EvidenceContext ELSE 0
        end   == IF span.end + EvidenceContext < Len(text)
                 THEN span.end + EvidenceContext ELSE Len(text)
        s     == SubSeq(text, start + 1, end)
        kept  == {i \in DOMAIN s : s[i] \notin Whitespace}
    IN  IF kept = {} THEN <<>>
        ELSE SubSeq(s, CHOOSE i \in kept : \A k \in kept : i <= k,
                       CHOOSE i \in kept : \A k \in kept : i >= k)

\* the loop over the matches of one pattern: a context that is not empty and
\* not yet in evidence_parts is appended
RECURSIVE AppendContexts(_, _, _, _)
AppendContexts(evidence_parts, text, spans, k) ==
    IF k > Len(spans) THEN evidence_parts
    ELSE LET context == Context(text, spans[k])
         IN  AppendContexts(IF context # <<>> /\ context \notin Range(evidence_parts)
                            THEN Append(evidence_parts, context) ELSE evidence_parts,
                            text, spans, k + 1)

\* the loop over the patterns of the category: a pattern that raises
\* re.error is passed over
RECURSIVE EvidenceParts(_, _, _, _)
EvidenceParts(evidence_parts, text, patterns, i) ==
    IF i > Len(patterns) THEN evidence_parts
    ELSE EvidenceParts(AppendContexts(evidence_parts, text,
                                      ReFindIter(patterns[i], text).spans, 1),
                       text, patterns, i + 1)

\* delimiter.join(parts)
RECURSIVE Join(_, _)
Join(delimiter, parts) ==
    IF parts = <<>> THEN <<>>
    ELSE IF Len(parts) = 1 THEN parts[1]
    ELSE parts[1] \o delimiter \o Join(delimiter, Tail(parts))

\* _extract_evidence keeping every fragment
_extract_evidence_uncapped(self, text, violation_type) ==
    IF violation_type \notin DOMAIN self.vp THEN <<>>
    ELSE Join(EvidenceDelimiter, EvidenceParts(<<>>, text, self.vp[violation_type], 1))

\* _extract_evidence(text, violation_type)
_extract_evidence(self, text, violation_type) ==
    IF violation_type \notin DOMAIN self.vp THEN <<>>
    ELSE LET evidence_parts == EvidenceParts(<<>>, text, self.vp[violation_type], 1)
         IN  Join(EvidenceDelimiter,
                  SubSeq(evidence_parts, 1,
                         IF Len(evidence_parts) < MaxEvidence
                         THEN Len(evidence_parts) ELSE MaxEvidence))

\* the descriptions literal of _get_violation_description
DefaultDescriptions == [n \in {SheHuang} |-> "a built-in description"]

\* _get_violation_description(violation_type), or the exception that
\* "violation_type in self._custom_descriptions" raises on a value that is no
\* container
_get_violation_description(self, violation_type) ==
    IF self.desc.kind = "null" THEN [raised |-> "TypeError", value |-> ""]
    ELSE IF violation_type \in DOMAIN self.desc.map
         THEN [raised |-> "", value |-> self.desc.map[violation_type]]
    ELSE IF violation_type \in DOMAIN DefaultDescriptions
         THEN [raised |-> "", value |-> DefaultDescriptions[violation_type]]
    ELSE [raised |-> "", value |-> "a generated description"]

\* the ViolationInfo of one category, or the exception raised while it is
\* built: the confidence comes first, then the evidence (which does not
\* raise), the description last
ViolationInfo(self, text, violation_type) ==
    LET confidence  == _calculate_confidence(self, text, violation_type)
        evidence    == _extract_evidence(self, text, violation_type)
        description == _get_violation_description(self, violation_type)
    IN  [raised |-> IF confidence.raised # "" THEN confidence.raised ELSE description.raised,
         info |-> [type |-> violation_type, description |-> description.value,
                   count |-> 1, confidence |-> confidence.value, evidence |-> evidence]]

\* extract_violation_details(reason_text), jieba being what jieba.lcut does
\* during the call and order the order in which the list parse_reason
\* returns holds the categories: an exception of a category ends the call
extract_violation_details(self, reason_text, jieba, order) ==
    IF reason_text = <<>> THEN Outcome(self, "list", "", {})
    ELSE LET parsed  == parse_reason(self, reason_text, jieba)
             visited == SelectSeq(order, LAMBDA n : n \in parsed.cats)
             raising == SelectSeq(visited, LAMBDA n :
                                     ViolationInfo(parsed.self, reason_text, n).raised # "")
         IN  IF raising # <<>>
             THEN Outcome(parsed.self, "raise",
                          ViolationInfo(parsed.self, reason_text, Head(raising)).raised, {})
             ELSE Outcome(parsed.self, "list", parsed.err,
                          {ViolationInfo(parsed.self, reason_text, n).info : n \in parsed.cats})

\* a Counter after adding the counts of another
CounterAdd(counter, more) ==
    [k \in (DOMAIN counter) \cup (DOMAIN more) |->
        (IF k \in DOMAIN counter THEN counter[k] ELSE 0)
            + (IF k \in DOMAIN more THEN more[k] ELSE 0)]

\* what the loop over self.violation_patterns[violation] adds to
\* pattern_counter[violation] for one text: one for every entry of the list
\* that hits the text, counted under the entry's pattern string
PatternHits(patterns, text) ==
    LET hits == {i \in DOMAIN patterns : ReSearch(patterns[i], text) = "match"}
    IN  [p \in {patterns[i] : i \in hits} |->
            Cardinality({i \in hits : patterns[i] = p})]

\* the loop of get_violation_statistics over reason_texts, from text i on:
\* the parser, violation_counter, pattern_counter and what was logged
RECURSIVE StatisticsLoop(_, _, _, _)
StatisticsLoop(acc, reason_texts, jiebas, i) ==
    IF i > Len(reason_texts) THEN acc
    ELSE IF reason_texts[i] = <<>> THEN StatisticsLoop(acc, reason_texts, jiebas, i + 1)
    ELSE LET parsed  == parse_reason(acc.self, reason_texts[i], jiebas[i])
             counted == {c \in parsed.cats :
                            /\ c \in DOMAIN parsed.self.vp
                            /\ DOMAIN PatternHits(parsed.self.vp[c], reason_texts[i]) # {}}
         IN  StatisticsLoop(
                 [self |-> parsed.self,
                  violation_counter |->
                      CounterAdd(acc.violation_counter, [c \in parsed.cats |-> 1]),
                  pattern_counter |->
                      [c \in (DOMAIN acc.pattern_counter) \cup counted |->
                          CounterAdd(IF c \in DOMAIN acc.pattern_counter
                                     THEN acc.pattern_counter[c] ELSE EmptyDict,
                                     IF c \in counted
                                     THEN PatternHits(parsed.self.vp[c], reason_texts[i])
                                     ELSE EmptyDict)],
                  err |-> IF parsed.err # "" THEN parsed.err ELSE acc.err],
                 reason_texts, jiebas, i + 1)

\* get_violation_statistics(reason_texts), jiebas[i] being what jieba.lcut
\* does when text i is classified; the second parse_reason of each text, for
\* violation_rate, finds the text in the cache or blank
get_violation_statistics(self, reason_texts, jiebas) ==
    LET done == StatisticsLoop([self |-> self, violation_counter |-> EmptyDict,
                                pattern_counter |-> EmptyDict, err |-> ""],
                               reason_texts, jiebas, 1)
        violating == {i \in DOMAIN reason_texts :
                         parse_reason(done.self, reason_texts[i], jiebas[i]).cats # {}}
    IN  Outcome(done.self, "dict", done.err,
                {[violation_counts |-> done.violation_counter,
                  pattern_matches |-> done.pattern_counter,
                  total_texts |-> Len(reason_texts),
                  violation_rate |-> IF reason_texts = <<>> THEN Fraction(0, 1)
                                     ELSE Fraction(Cardinality(violating), Len(reason_texts)),
                  pattern_info |-> get_pattern_info(done.self)]})

-----------------------------------------------------------------------------
(* More inputs.                                                            *)

\* the description argument of add_violation_type
Descriptions == {"", "a custom type"}

\* the 'descriptions' of a document: absent, null, or a dict (which may
\* describe a category the document's patterns do not have)
DocDescriptions ==
    {DescUnset, DescNull}
        \cup {DescDict(m) : m \in UNION {[S -> {"a custom type"}] : S \in SUBSET {CustomName}}}

\* what load_custom_patterns can find at the path
Documents ==
    {[kind |-> k, patterns |-> EmptyDict, descriptions |-> DescUnset] :
        k \in {"missing", "unparseable", "no patterns"}}
        \cup {[kind |-> "rules", patterns |-> m, descriptions |-> d] :
                 m \in {pm \in PatternMaps :
                           /\ DOMAIN pm \subseteq {CustomName}
                           /\ \A n \in DOMAIN pm : Len(pm[n]) <= 1},
                 d \in DocDescriptions}

-----------------------------------------------------------------------------
(* The state machine: one parser, called by one caller.                    *)

Self ==
    Parser(violation_patterns, is_using_custom_patterns, violation_cache,
           custom_descriptions, jieba_words)

\* the record of a call
Call(op, out) == [op |-> op, ret |-> out.ret, err |-> out.err, cats |-> out.cats]

\* a call in progress that reads: where it is, its text, the categories found
\* so far, what it logged, and the rule set (pattern map and flag) each pass
\* read
IdleReader == [pc |-> "idle", text |-> <<>>, violations |-> {}, err |-> "", seen |-> <<>>]

\* a call in progress that mutates: its operation and the step it is at
IdleWriter == [op |-> "", at |-> 0]

\* no call in progress
NoCalls == [reader |-> IdleReader, w1 |-> IdleWriter, w2 |-> IdleWriter]

\* no second parser
NoPeer == [exists |-> FALSE]

\* no file at the path
NoFile == [kind |-> "missing", patterns |-> EmptyDict, descriptions |-> DescUnset]

Constructed(self) ==
    /\ violation_patterns = self.vp
    /\ is_using_custom_patterns = self.custom
    /\ violation_cache = self.cache
    /\ custom_descriptions = self.desc
    /\ jieba_words = self.words
    /\ last = Call("__init__", Outcome(self, "None", "", {}))
    /\ in_flight = NoCalls
    /\ peer = NoPeer
    /\ pattern_file = NoFile

\* the constructor without custom_patterns, or with a custom_patterns (which
\* it stores as it is) of no category or of the custom one with at most one
\* pattern string
Init ==
    \/ Constructed(create_reason_parser(FALSE, EmptyDict))
    \/ \E m \in {c \in PatternMaps :
                     /\ DOMAIN c \subseteq {CustomName}
                     /\ \A n \in DOMAIN c :
                           /\ Len(c[n]) <= 1
                           /\ \A i \in DOMAIN c[n] : IsInstanceStr(c[n][i])} :
          Constructed(create_reason_parser(TRUE, m))

SetCustomPatterns ==
    \E m \in PatternMaps :
        \E out \in {set_custom_patterns(Self, m)} :
            /\ violation_patterns' = out.self.vp
            /\ is_using_custom_patterns' = out.self.custom
            /\ violation_cache' = out.self.cache
            /\ custom_descriptions' = out.self.desc
            /\ jieba_words' = out.self.words
            /\ last' = Call("set_custom_patterns", out)
            /\ UNCHANGED <<in_flight, peer, pattern_file>>

AddViolationType ==
    \E np \in NamedLists, d \in Descriptions :
        \E out \in {add_violation_type(Self, np[1], np[2], d)} :
            /\ violation_patterns' = out.self.vp
            /\ is_using_custom_patterns' = out.self.custom
            /\ violation_cache' = out.self.cache
            /\ custom_descriptions' = out.self.desc
            /\ jieba_words' = out.self.words
            /\ last' = Call("add_violation_type", out)
            /\ UNCHANGED <<in_flight, peer, pattern_file>>

RemoveViolationType ==
    \E n \in InputNames :
        \E out \in {remove_violation_type(Self, n)} :
            /\ violation_patterns' = out.self.vp
            /\ is_using_custom_patterns' = out.self.custom
            /\ violation_cache' = out.self.cache
            /\ custom_descriptions' = out.self.desc
            /\ jieba_words' = out.self.words
            /\ last' = Call("remove_violation_type", out)
            /\ UNCHANGED <<in_flight, peer, pattern_file>>

UpdateViolationPatterns ==
    \E np \in NamedLists :
        \E out \in {update_violation_patterns(Self, np[1], np[2])} :
            /\ violation_patterns' = out.self.vp
            /\ is_using_custom_patterns' = out.self.custom
            /\ violation_cache' = out.self.cache
            /\ custom_descriptions' = out.self.desc
            /\ jieba_words' = out.self.words
            /\ last' = Call("update_violation_patterns", out)
            /\ UNCHANGED <<in_flight, peer, pattern_file>>

ResetToDefaultPatterns ==
    \E out \in {reset_to_default_patterns(Self)} :
        /\ violation_patterns' = out.self.vp
        /\ is_using_custom_patterns' = out.self.custom
        /\ violation_cache' = out.self.cache
        /\ custom_descriptions' = out.self.desc
        /\ jieba_words' = out.self.words
        /\ last' = Call("reset_to_default_patterns", out)
        /\ UNCHANGED <<in_flight, peer, pattern_file>>

LoadCustomPatterns ==
    \E doc \in Documents :
        \E out \in {load_custom_patterns(Self, doc)} :
            /\ violation_patterns' = out.self.vp
            /\ is_using_custom_patterns' = out.self.custom
            /\ violation_cache' = out.self.cache
            /\ custom_descriptions' = out.self.desc
            /\ jieba_words' = out.self.words
            /\ last' = Call("load_custom_patterns", out)
            /\ UNCHANGED <<in_flight, peer, pattern_file>>

ParseReason ==
    \E t \in Texts : \E j \in JiebaOutcomes(t) :
        \E out \in {parse_reason(Self, t, j)} :
            /\ violation_patterns' = out.self.vp
            /\ is_using_custom_patterns' = out.self.custom
            /\ violation_cache' = out.self.cache
            /\ custom_descriptions' = out.self.desc
            /\ jieba_words' = out.self.words
            /\ last' = Call("parse_reason", out)
            /\ UNCHANGED <<in_flight, peer, pattern_file>>

Next ==
    \/ SetCustomPatterns
    \/ AddViolationType
    \/ RemoveViolationType
    \/ UpdateViolationPatterns
    \/ ResetToDefaultPatterns
    \/ LoadCustomPatterns
    \/ ParseReason

Spec == Init /\ [][Next]_vars

-----------------------------------------------------------------------------
(* Classification on its own: a parser constructed over a wider choice of  *)
(* pattern maps, then only read.                                           *)

\* a pattern that misses the text "bb" although its keyword, "bb", is in it
PatKeywordOnly == <<"b", ".", "b">>

\* a gap pattern re.compile rejects: the semantic pass of a custom rule set
\* takes it up and re.search raises re.error on it
PatInvalidGap == <<"(", ".", "*", "?">>

\* a pattern that hits the text "ab" and has neither a keyword of two
\* characters nor a gap: only the regex pass finds its category
PatRegexOnly == <<"a", ".">>

ClassifyPatterns == {PatGap, PatInvalid, PatKeywordOnly, PatInvalidGap, PatRegexOnly}

\* texts: those of Texts and "ba", which only the built-in semantic pattern hits
ClassifyTexts == Texts \cup {<<"b", "a">>}

\* the orders in which a list of categories can hold the names
Orders == {<<SheHuang, CustomName>>, <<CustomName, SheHuang>>}

\* the record of a call together with the text it was given
CallOn(op, text, out) ==
    [op |-> op, text |-> text, ret |-> out.ret, err |-> out.err, cats |-> out.cats]

\* the constructor without custom_patterns, or with a custom_patterns of no
\* category, of the custom category with any list of at most MaxPatterns
\* patterns, or of the custom category with at most one pattern and the
\* built-in name with one pattern
ClassifyInit ==
    \/ Constructed(create_reason_parser(FALSE, EmptyDict))
    \/ \E m \in {EmptyDict}
                  \cup {[n \in {CustomName} |-> p] :
                           p \in SeqsUpTo(ClassifyPatterns, MaxPatterns)}
                  \cup {[n \in Names |-> IF n = CustomName THEN p ELSE <<PatGap>>] :
                           p \in SeqsUpTo(ClassifyPatterns, 1)} :
          Constructed(create_reason_parser(TRUE, m))

ClassifyParseReason ==
    \E t \in ClassifyTexts : \E j \in JiebaOutcomes(t) :
        \E out \in {parse_reason(Self, t, j)} :
            /\ violation_patterns' = out.self.vp
            /\ is_using_custom_patterns' = out.self.custom
            /\ violation_cache' = out.self.cache
            /\ custom_descriptions' = out.self.desc
            /\ jieba_words' = out.self.words
            /\ last' = CallOn("parse_reason", t, out)
            /\ UNCHANGED <<in_flight, peer, pattern_file>>

ExtractViolationDetails ==
    \E t \in ClassifyTexts : \E j \in JiebaOutcomes(t) : \E order \in Orders :
        \E out \in {extract_violation_details(Self, t, j, order)} :
            /\ violation_patterns' = out.self.vp
            /\ is_using_custom_patterns' = out.self.custom
            /\ violation_cache' = out.self.cache
            /\ custom_descriptions' = out.self.desc
            /\ jieba_words' = out.self.words
            /\ last' = CallOn("extract_violation_details", t, out)
            /\ UNCHANGED <<in_flight, peer, pattern_file>>

\* a call of _calculate_confidence(text, violation_type) and its record
CalculateConfidence ==
    \E t \in ClassifyTexts : \E n \in Names :
        /\ \E confidence \in {_calculate_confidence(Self, t, n)} :
              last' = [op |-> "_calculate_confidence",
                       ret |-> IF confidence.raised # "" THEN "raise" ELSE "float",
                       err |-> confidence.raised,
                       cats |-> {[type |-> n, confidence |-> confidence.value]}]
        /\ UNCHANGED <<violation_patterns, is_using_custom_patterns, violation_cache,
                       custom_descriptions, jieba_words, in_flight, peer, pattern_file>>

ClassifyNext ==
    \/ ClassifyParseReason
    \/ ExtractViolationDetails
    \/ CalculateConfidence

SpecClassify == ClassifyInit /\ [][ClassifyNext]_vars

-----------------------------------------------------------------------------
(* The tokenizer's vocabulary: the registry mutated with patterns whose     *)
(* keywords jieba has not been given before.                               *)

\* the patterns handed to the mutations: the keyword of PatGap is a built-in
\* term, the keyword of PatKeywordOnly ("bb") is not
VocabularyPatterns == {PatGap, PatKeywordOnly}

VocabularyLists == SeqsUpTo(VocabularyPatterns, MaxPatterns)

\* pattern maps: no category, the custom category with any list, or both
\* categories with one pattern each
VocabularyMaps ==
    {EmptyDict}
        \cup {[n \in {CustomName} |-> p] : p \in VocabularyLists}
        \cup {[n \in Names |-> <<p>>] : p \in VocabularyPatterns}

VocabularyInit ==
    \/ Constructed(create_reason_parser(FALSE, EmptyDict))
    \/ \E m \in VocabularyMaps : Constructed(create_reason_parser(TRUE, m))

VocabularySet ==
    \E m \in VocabularyMaps :
        \E out \in {set_custom_patterns(Self, m)} :
            /\ violation_patterns' = out.self.vp
            /\ is_using_custom_patterns' = out.self.custom
            /\ violation_cache' = out.self.cache
            /\ custom_descriptions' = out.self.desc
            /\ jieba_words' = out.self.words
            /\ last' = Call("set_custom_patterns", out)
            /\ UNCHANGED <<in_flight, peer, pattern_file>>

VocabularyAdd ==
    \E n \in Names, p \in VocabularyLists, d \in Descriptions :
        \E out \in {add_violation_type(Self, n, p, d)} :
            /\ violation_patterns' = out.self.vp
            /\ is_using_custom_patterns' = out.self.custom
            /\ violation_cache' = out.self.cache
            /\ custom_descriptions' = out.self.desc
            /\ jieba_words' = out.self.words
            /\ last' = Call("add_violation_type", out)
            /\ UNCHANGED <<in_flight, peer, pattern_file>>

VocabularyRemove ==
    \E n \in Names :
        \E out \in {remove_violation_type(Self, n)} :
            /\ violation_patterns' = out.self.vp
            /\ is_using_custom_patterns' = out.self.custom
            /\ violation_cache' = out.self.cache
            /\ custom_descriptions' = out.self.desc
            /\ jieba_words' = out.self.words
            /\ last' = Call("remove_violation_type", out)
            /\ UNCHANGED <<in_flight, peer, pattern_file>>

VocabularyUpdate ==
    \E n \in Names, p \in VocabularyLists :
        \E out \in {update_violation_patterns(Self, n, p)} :
            /\ violation_patterns' = out.self.vp
            /\ is_using_custom_patterns' = out.self.custom
            /\ violation_cache' = out.self.cache
            /\ custom_descriptions' = out.self.desc
            /\ jieba_words' = out.self.words
            /\ last' = Call("update_violation_patterns", out)
            /\ UNCHANGED <<in_flight, peer, pattern_file>>

VocabularyReset ==
    \E out \in {reset_to_default_patterns(Self)} :
        /\ violation_patterns' = out.self.vp
        /\ is_using_custom_patterns' = out.self.custom
        /\ violation_cache' = out.self.cache
        /\ custom_descriptions' = out.self.desc
        /\ jieba_words' = out.self.words
        /\ last' = Call("reset_to_default_patterns", out)
        /\ UNCHANGED <<in_flight, peer, pattern_file>>

VocabularyNext ==
    \/ VocabularySet
    \/ VocabularyAdd
    \/ VocabularyRemove
    \/ VocabularyUpdate
    \/ VocabularyReset

SpecVocabulary == VocabularyInit /\ [][VocabularyNext]_vars

-----------------------------------------------------------------------------
(* Two parsers in one process. __init__ stores the custom_patterns dict it *)
(* is given, not a copy, so two parsers constructed from one dict hold the *)
(* same object until one of them assigns a new dict to its field; jieba's  *)
(* vocabulary is one per process.                                          *)

\* the custom_patterns argument of the two constructors
PeerMap == [n \in {CustomName} |-> <<PatGap>>]

\* the texts the second parser classifies
PeerTexts == {<<"a", "b">>, <<"b", "b">>}

\* the second parser, with the process's jieba vocabulary
Peer == [peer.parser EXCEPT !.words = jieba_words]

\* the second parser after the first has assigned a new dict to its
\* violation_patterns (when rebound), or has not
AfterAssignment(rebound) == [peer EXCEPT !.shares_map = @ /\ ~rebound]

\* the second parser after the first has changed its dict in place to vp
AfterItemAssignment(vp) ==
    IF peer.shares_map THEN [peer EXCEPT !.parser.vp = vp] ELSE peer

\* both constructed with no argument, both from one dict, or each from a
\* dict of its own with the same content
PeersInit ==
    \E how \in {"defaults", "one dict", "two dicts"} :
        \E self \in {IF how = "defaults" THEN create_reason_parser(FALSE, EmptyDict)
                      ELSE create_reason_parser(TRUE, PeerMap)} :
            /\ violation_patterns = self.vp
            /\ is_using_custom_patterns = self.custom
            /\ violation_cache = self.cache
            /\ custom_descriptions = self.desc
            /\ jieba_words = self.words
            /\ last = Call("__init__", Outcome(self, "None", "", {}))
            /\ in_flight = NoCalls
            /\ peer = [exists |-> TRUE, parser |-> [self EXCEPT !.words = {}],
                       shares_map |-> (how = "one dict")]
            /\ pattern_file = NoFile

PeersSet ==
    \E out \in {set_custom_patterns(Self, PeerMap)} :
        /\ violation_patterns' = out.self.vp
        /\ is_using_custom_patterns' = out.self.custom
        /\ violation_cache' = out.self.cache
        /\ custom_descriptions' = out.self.desc
        /\ jieba_words' = out.self.words
        /\ last' = Call("set_custom_patterns", out)
        /\ peer' = AfterAssignment(out.ret = "True")
        /\ UNCHANGED <<in_flight, pattern_file>>

PeersAdd ==
    \E d \in Descriptions :
        \E out \in {add_violation_type(Self, CustomName, <<PatKeywordOnly>>, d)} :
            /\ violation_patterns' = out.self.vp
            /\ is_using_custom_patterns' = out.self.custom
            /\ violation_cache' = out.self.cache
            /\ custom_descriptions' = out.self.desc
            /\ jieba_words' = out.self.words
            /\ last' = Call("add_violation_type", out)
            /\ peer' = AfterItemAssignment(out.self.vp)
            /\ UNCHANGED <<in_flight, pattern_file>>

PeersRemove ==
    \E n \in {CustomName} :
        \E out \in {remove_violation_type(Self, n)} :
            /\ violation_patterns' = out.self.vp
            /\ is_using_custom_patterns' = out.self.custom
            /\ violation_cache' = out.self.cache
            /\ custom_descriptions' = out.self.desc
            /\ jieba_words' = out.self.words
            /\ last' = Call("remove_violation_type", out)
            /\ peer' = AfterItemAssignment(out.self.vp)
            /\ UNCHANGED <<in_flight, pattern_file>>

PeersUpdate ==
    \E n \in {CustomName} :
        \E out \in {update_violation_patterns(Self, n, <<PatGap>>)} :
            /\ violation_patterns' = out.self.vp
            /\ is_using_custom_patterns' = out.self.custom
            /\ violation_cache' = out.self.cache
            /\ custom_descriptions' = out.self.desc
            /\ jieba_words' = out.self.words
            /\ last' = Call("update_violation_patterns", out)
            /\ peer' = AfterItemAssignment(out.self.vp)
            /\ UNCHANGED <<in_flight, pattern_file>>

PeersReset ==
    \E out \in {reset_to_default_patterns(Self)} :
        /\ violation_patterns' = out.self.vp
        /\ is_using_custom_patterns' = out.self.custom
        /\ violation_cache' = out.self.cache
        /\ custom_descriptions' = out.self.desc
        /\ jieba_words' = out.self.words
        /\ last' = Call("reset_to_default_patterns", out)
        /\ peer' = AfterAssignment(TRUE)
        /\ UNCHANGED <<in_flight, pattern_file>>

\* the first parser saves its rule set
SaveCustomPatterns ==
    \E writable \in BOOLEAN :
        \E out \in {save_custom_patterns(Self, writable)} :
            /\ pattern_file' = IF writable THEN SavedDocument(Self) ELSE pattern_file
            /\ last' = Call("save_custom_patterns", out)
            /\ UNCHANGED <<violation_patterns, is_using_custom_patterns, violation_cache,
                           custom_descriptions, jieba_words, in_flight, peer>>

\* the second parser loads the file
PeerLoadCustomPatterns ==
    \E out \in {load_custom_patterns(Peer, pattern_file)} :
        /\ peer' = [peer EXCEPT !.parser = [out.self EXCEPT !.words = {}],
                                !.shares_map = @ /\ out.ret # "True"]
        /\ jieba_words' = out.self.words
        /\ last' = Call("peer.load_custom_patterns", out)
        /\ UNCHANGED <<violation_patterns, is_using_custom_patterns, violation_cache,
                       custom_descriptions, in_flight, pattern_file>>

\* the second parser classifies a text
PeerParseReason ==
    \E t \in PeerTexts : \E j \in JiebaOutcomes(t) :
        \E out \in {parse_reason(Peer, t, j)} :
            /\ peer' = [peer EXCEPT !.parser.cache = out.self.cache]
            /\ last' = CallOn("peer.parse_reason", t, out)
            /\ UNCHANGED <<violation_patterns, is_using_custom_patterns, violation_cache,
                           custom_descriptions, jieba_words, in_flight, pattern_file>>

PeersNext ==
    \/ PeersSet
    \/ PeersAdd
    \/ PeersRemove
    \/ PeersUpdate
    \/ PeersReset
    \/ SaveCustomPatterns
    \/ PeerLoadCustomPatterns
    \/ PeerParseReason

SpecPeers == PeersInit /\ [][PeersNext]_vars

-----------------------------------------------------------------------------
(* Evidence and statistics: parsers constructed over pattern lists that    *)
(* hold a pattern more than once, and texts longer than the context kept   *)
(* around a match.                                                         *)

\* the constructor without custom_patterns, or with the custom category and
\* any list of at most MaxPatterns patterns out of "a" (it hits every "a" of
\* a text), PatGap and PatInvalid
DetailsInit ==
    \/ Constructed(create_reason_parser(FALSE, EmptyDict))
    \/ \E p \in SeqsUpTo({<<"a">>, PatGap, PatInvalid}, MaxPatterns) :
          Constructed(create_reason_parser(TRUE, [n \in {CustomName} |-> p]))

\* texts handed to _extract_evidence: "aaaa" followed by twenty other
\* characters (the contexts of its four matches of "a" end at four different
\* places), and texts shorter than the context
EvidenceTexts ==
    {<<"a", "a", "a", "a">> \o [i \in 1..EvidenceContext |-> "x"],
     <<"a", "b">>, <<"b", "b">>, <<" ", "a", " ">>, <<"a", "b", "a", "b">>}

\* a call of _extract_evidence(text, violation_type) and its record
ExtractEvidence ==
    \E t \in EvidenceTexts : \E n \in Names :
        /\ last' = [op |-> "_extract_evidence", text |-> t, type |-> n,
                    ret |-> "str", err |-> "", cats |-> {},
                    evidence |-> _extract_evidence(Self, t, n)]
        /\ UNCHANGED <<violation_patterns, is_using_custom_patterns, violation_cache,
                       custom_descriptions, jieba_words, in_flight, peer, pattern_file>>

SpecEvidence == DetailsInit /\ [][ExtractEvidence]_vars

\* longest list of texts handed to get_violation_statistics
MaxTexts == 2

\* texts handed to get_violation_statistics
StatisticsTexts == {<<>>, <<"a", "b">>, <<"b", "b">>}

\* a call of get_violation_statistics(reason_texts), with what jieba.lcut
\* does on each text of the list, and its record
GetViolationStatistics ==
    \E texts \in SeqsUpTo(StatisticsTexts, MaxTexts) :
      \E js \in {c \in [DOMAIN texts -> UNION {JiebaOutcomes(t) : t \in StatisticsTexts}] :
                    \A i \in DOMAIN texts : c[i] \in JiebaOutcomes(texts[i])} :
        \E out \in {get_violation_statistics(Self, texts, js)} :
            /\ violation_patterns' = out.self.vp
            /\ is_using_custom_patterns' = out.self.custom
            /\ violation_cache' = out.self.cache
            /\ custom_descriptions' = out.self.desc
            /\ jieba_words' = out.self.words
            /\ last' = [op |-> "get_violation_statistics", texts |-> texts,
                        ret |-> out.ret, err |-> out.err, cats |-> out.cats]
            /\ UNCHANGED <<in_flight, peer, pattern_file>>

SpecStatistics == DetailsInit /\ [][GetViolationStatistics]_vars

-----------------------------------------------------------------------------
(* The keyword pass on its own, over texts with letters that str.lower()   *)
(* changes and every way jieba can cut them.                               *)

\* the constructor without custom_patterns, or with one or two categories
\* and, for each, at most MaxPatterns patterns out of "az" (its keyword ends
\* in the final small sigma), "asa" (the small sigma inside) and PatLiteral
KeywordInit ==
    \/ Constructed(create_reason_parser(FALSE, EmptyDict))
    \/ \E S \in {{CustomName}, Names} :
          \E m \in [S -> SeqsUpTo({<<"a", "z">>, <<"a", "s", "a">>, PatLiteral},
                                   MaxPatterns)] :
              Constructed(create_reason_parser(TRUE, m))

\* a call of _keyword_matching(text) on one of four texts, in which
\* jieba.lcut does what j says, and its record
KeywordMatching ==
    \E t \in {<<"A", "S", "A">>, <<"A", "B", "A">>, <<"A", "S">>, <<"b", "b">>} :
      \E j \in JiebaOutcomes(t) :
        /\ last' = [op |-> "_keyword_matching", text |-> t, jieba |-> j,
                    ret |-> "set", err |-> "",
                    cats |-> KeywordPass(violation_patterns,
                                         is_using_custom_patterns, t, j)]
        /\ UNCHANGED <<violation_patterns, is_using_custom_patterns, violation_cache,
                       custom_descriptions, jieba_words, in_flight, peer, pattern_file>>

SpecKeyword == KeywordInit /\ [][KeywordMatching]_vars

-----------------------------------------------------------------------------
(* Calls from several threads on one parser. No method takes a lock, so a  *)
(* call is a sequence of steps, each reading or writing the parser's       *)
(* fields as they are at that moment, and the steps of the calls in        *)
(* progress interleave. One parse_reason and at most two mutations run.    *)

\* the argument of a concurrent set_custom_patterns
ConcurrentMap == [n \in {CustomName} |-> <<PatGap>>]

\* the statements of a mutation that touch the parser, in program order
Steps(op) ==
    CASE op = "set_custom_patterns" -> <<"patterns", "flag", "clear", "jieba">>
      [] op = "add_violation_type" -> <<"patterns", "flag", "jieba", "descriptions", "clear">>
      [] op = "reset_to_default_patterns" ->
            <<"patterns", "flag", "descriptions", "clear", "jieba">>

\* the same mutation as one uninterrupted call
Serial(op, self) ==
    CASE op = "set_custom_patterns" -> set_custom_patterns(self, ConcurrentMap).self
      [] op = "add_violation_type" ->
            add_violation_type(self, CustomName, <<PatGap>>, "a custom type").self
      [] op = "reset_to_default_patterns" -> reset_to_default_patterns(self).self

\* the rule set a pass reads: the pattern map and the flag
RuleSet(self) == [vp |-> self.vp, custom |-> self.custom]

Writers == {"w1", "w2"}

\* the statement writer w is at ("" when it has not started or has returned)
AtStep(w) ==
    IF in_flight[w].op # "" /\ in_flight[w].at <= Len(Steps(in_flight[w].op))
    THEN Steps(in_flight[w].op)[in_flight[w].at]
    ELSE ""

Returned(w) == in_flight[w].op # "" /\ in_flight[w].at > Len(Steps(in_flight[w].op))

\* writer w moves past its statement; after the last one the call returns
\* (True, or None for reset_to_default_patterns)
Advance(w) ==
    /\ in_flight' = [in_flight EXCEPT ![w].at = @ + 1]
    /\ last' = IF in_flight[w].at = Len(Steps(in_flight[w].op))
               THEN [op |-> in_flight[w].op,
                     ret |-> IF in_flight[w].op = "reset_to_default_patterns"
                             THEN "None" ELSE "True",
                     err |-> "", cats |-> {}]
               ELSE last

ConcurrentInit ==
    \E self \in {create_reason_parser(FALSE, EmptyDict),
                 create_reason_parser(TRUE, ConcurrentMap)} :
        /\ violation_patterns = self.vp
        /\ is_using_custom_patterns = self.custom
        /\ violation_cache = self.cache
        /\ custom_descriptions = self.desc
        /\ jieba_words = self.words
        /\ last = Call("__init__", Outcome(self, "None", "", {}))
        /\ in_flight = [base |-> self, reader |-> IdleReader,
                        w1 |-> IdleWriter, w2 |-> IdleWriter]
        /\ peer = NoPeer
        /\ pattern_file = NoFile

\* a mutation is called, one of set_custom_patterns(ConcurrentMap),
\* add_violation_type(CustomName, [PatGap], "a custom type") and
\* reset_to_default_patterns(): its arguments pass the validation, which
\* touches nothing of the parser
WriterBegin ==
    \E w \in Writers :
      \E op \in {"set_custom_patterns", "add_violation_type", "reset_to_default_patterns"} :
        /\ in_flight[w].op = ""
        /\ w = "w2" => in_flight.w1.op # ""
        /\ in_flight' = [in_flight EXCEPT ![w] = [op |-> op, at |-> 1]]
        /\ UNCHANGED <<peer, pattern_file, violation_patterns, is_using_custom_patterns, violation_cache,
                       custom_descriptions, jieba_words, last>>

\* self.violation_patterns = ... (set, reset), self.violation_patterns[violation_type] = ... (add)
WriterAssignPatterns ==
    \E w \in Writers :
        /\ AtStep(w) = "patterns"
        /\ violation_patterns' =
              CASE in_flight[w].op = "set_custom_patterns" -> ConcurrentMap
                [] in_flight[w].op = "add_violation_type" ->
                      DictSet(violation_patterns, CustomName, <<PatGap>>)
                [] in_flight[w].op = "reset_to_default_patterns" -> default_patterns
        /\ Advance(w)
        /\ UNCHANGED <<peer, pattern_file, is_using_custom_patterns, violation_cache, custom_descriptions,
                       jieba_words>>

\* self.is_using_custom_patterns = ...
WriterAssignFlag ==
    \E w \in Writers :
        /\ AtStep(w) = "flag"
        /\ is_using_custom_patterns' = (in_flight[w].op # "reset_to_default_patterns")
        /\ Advance(w)
        /\ UNCHANGED <<peer, pattern_file, violation_patterns, violation_cache, custom_descriptions, jieba_words>>

\* self.clear_cache()
WriterClearCache ==
    \E w \in Writers :
        /\ AtStep(w) = "clear"
        /\ violation_cache' = clear_cache(Self).cache
        /\ Advance(w)
        /\ UNCHANGED <<peer, pattern_file, violation_patterns, is_using_custom_patterns, custom_descriptions,
                       jieba_words>>

\* self._init_jieba() (set, reset), jieba.add_word of the name and keywords (add)
WriterJieba ==
    \E w \in Writers :
        /\ AtStep(w) = "jieba"
        /\ jieba_words' =
              IF in_flight[w].op = "add_violation_type"
              THEN jieba_words \cup {CustomName} \cup Range(ExtractKeywords(PatGap))
              ELSE _init_jieba(Self).words
        /\ Advance(w)
        /\ UNCHANGED <<peer, pattern_file, violation_patterns, is_using_custom_patterns, violation_cache,
                       custom_descriptions>>

\* self._custom_descriptions[violation_type] = description (add),
\* self._custom_descriptions = {} when the attribute exists (reset)
WriterDescriptions ==
    \E w \in Writers :
        /\ AtStep(w) = "descriptions"
        /\ custom_descriptions' =
              IF in_flight[w].op = "add_violation_type"
              THEN DescDict(DictSet(custom_descriptions.map, CustomName, "a custom type"))
              ELSE IF custom_descriptions.kind = "unset" THEN DescUnset
              ELSE DescDict(EmptyDict)
        /\ Advance(w)
        /\ UNCHANGED <<peer, pattern_file, violation_patterns, is_using_custom_patterns, violation_cache,
                       jieba_words>>

\* parse_reason is called with a non-blank text: a cache hit returns at once,
\* a miss goes on to the passes
ReaderBegin ==
    \E t \in {<<"a", "b">>, <<"b", "b">>} :
        /\ in_flight.reader.pc = "idle"
        /\ IF Hash(t) \in DOMAIN violation_cache
           THEN /\ in_flight' = [in_flight EXCEPT !.reader =
                       [IdleReader EXCEPT !.pc = "hit", !.text = t,
                                          !.violations = violation_cache[Hash(t)]]]
                /\ last' = Call("parse_reason",
                                Outcome(Self, "list", "", violation_cache[Hash(t)]))
           ELSE /\ in_flight' = [in_flight EXCEPT !.reader =
                       [IdleReader EXCEPT !.pc = "regex", !.text = t]]
                /\ UNCHANGED last
        /\ UNCHANGED <<peer, pattern_file, violation_patterns, is_using_custom_patterns, violation_cache,
                       custom_descriptions, jieba_words>>

\* the loop over self.violation_patterns.items()
ReaderRegexPass ==
    /\ in_flight.reader.pc = "regex"
    /\ in_flight' = [in_flight EXCEPT
          !.reader.pc = "keyword",
          !.reader.violations = RegexPass(violation_patterns, in_flight.reader.text),
          !.reader.seen = Append(@, RuleSet(Self))]
    /\ UNCHANGED <<peer, pattern_file, violation_patterns, is_using_custom_patterns, violation_cache,
                   custom_descriptions, jieba_words, last>>

\* violations.update(self._keyword_matching(reason_text))
ReaderKeywordPass ==
    \E j \in JiebaOutcomes(in_flight.reader.text) :
        /\ in_flight.reader.pc = "keyword"
        /\ in_flight' = [in_flight EXCEPT
              !.reader.pc = "semantic",
              !.reader.violations =
                  @ \cup KeywordPass(violation_patterns, is_using_custom_patterns,
                                     in_flight.reader.text, j),
              !.reader.err = IF j.raised THEN "keyword matching failed" ELSE "",
              !.reader.seen = Append(@, RuleSet(Self))]
        /\ UNCHANGED <<peer, pattern_file, violation_patterns, is_using_custom_patterns, violation_cache,
                       custom_descriptions, jieba_words, last>>

\* violations.update(self._semantic_matching(reason_text))
ReaderSemanticPass ==
    /\ in_flight.reader.pc = "semantic"
    /\ in_flight' = [in_flight EXCEPT
          !.reader.pc = "store",
          !.reader.violations =
              @ \cup SemanticPass(violation_patterns, is_using_custom_patterns,
                                  in_flight.reader.text),
          !.reader.seen = Append(@, RuleSet(Self))]
    /\ UNCHANGED <<peer, pattern_file, violation_patterns, is_using_custom_patterns, violation_cache,
                   custom_descriptions, jieba_words, last>>

\* self.violation_cache[cache_key] = result; return result
ReaderStore ==
    /\ in_flight.reader.pc = "store"
    /\ violation_cache' = DictSet(violation_cache, Hash(in_flight.reader.text),
                                  in_flight.reader.violations)
    /\ in_flight' = [in_flight EXCEPT !.reader.pc = "done"]
    /\ last' = [op |-> "parse_reason", ret |-> "list", err |-> in_flight.reader.err,
                cats |-> in_flight.reader.violations]
    /\ UNCHANGED <<peer, pattern_file, violation_patterns, is_using_custom_patterns, custom_descriptions,
                   jieba_words>>

ConcurrentNext ==
    \/ WriterBegin
    \/ WriterAssignPatterns
    \/ WriterAssignFlag
    \/ WriterClearCache
    \/ WriterJieba
    \/ WriterDescriptions
    \/ ReaderBegin
    \/ ReaderRegexPass
    \/ ReaderKeywordPass
    \/ ReaderSemanticPass
    \/ ReaderStore

SpecConcurrent == ConcurrentInit /\ [][ConcurrentNext]_vars

-----------------------------------------------------------------------------
(* Properties.                                                             *)

\* the operations that change the registry
Mutations ==
    {"set_custom_patterns", "add_violation_type", "remove_violation_type",
     "update_violation_patterns", "reset_to_default_patterns", "load_custom_patterns"}

\* the last call was a mutation that succeeded (reset returns None)
Succeeded(call) == call.op \in Mutations /\ call.ret \in {"True", "None"}

\* the step is the call of op whose outcome is out
IsCall(op, out) ==
    /\ last' = Call(op, out)
    /\ violation_patterns' = out.self.vp
    /\ is_using_custom_patterns' = out.self.custom
    /\ violation_cache' = out.self.cache
    /\ custom_descriptions' = out.self.desc
    /\ jieba_words' = out.self.words

\* the call of the step failed and left get_current_patterns, the flag and the
\* cache as they were
StepRejected ==
    /\ last'.ret = "False"
    /\ UNCHANGED <<violation_patterns, is_using_custom_patterns, violation_cache>>

\* C1: a successful mutation (set, add, remove, update, reset, load) leaves the
\* cache empty, so the next parse_reason of any text returns what the
\* post-mutation rule set classifies it as, never a cached pre-mutation set.
C1_MutationClearsCache ==
    Succeeded(last) =>
        /\ violation_cache = EmptyDict
        /\ \A t \in Texts : \A j \in JiebaOutcomes(t) :
              parse_reason(Self, t, j).cats =
                  IF IsBlank(t) THEN {}
                  ELSE Classify(violation_patterns, is_using_custom_patterns, t, j)

\* a mutation succeeded on a parser whose rule set is not the built-in one,
\* and nothing is cached
C1_Witness ==
    /\ Succeeded(last)
    /\ last.op # "reset_to_default_patterns"
    /\ violation_patterns # VIOLATION_PATTERNS
    /\ violation_cache = EmptyDict

\* some pattern of the list is a string that does not compile
HasUncompilable(patterns) ==
    \E i \in DOMAIN patterns : IsInstanceStr(patterns[i]) /\ ~ReCompiles(patterns[i])

\* the call failed and get_current_patterns, the flag and the cache are as
\* before it
Rejected(outcome) ==
    \A out \in {outcome} :
        /\ out.ret = "False"
        /\ get_current_patterns(out.self) = get_current_patterns(Self)
        /\ out.self.custom = is_using_custom_patterns
        /\ out.self.cache = violation_cache

\* C2: set_custom_patterns, add_violation_type and update_violation_patterns
\* fail on an input holding a pattern that does not compile, and leave
\* get_current_patterns, the flag and the cache as they were; a map whose only
\* invalid category is the last one installs nothing.
C2_InvalidPatternRejected ==
    /\ \A m \in PatternMaps :
          (\E n \in DOMAIN m : HasUncompilable(m[n])) => Rejected(set_custom_patterns(Self, m))
    /\ \A n \in InputNames : \A p \in PatternLists :
          HasUncompilable(p) =>
              /\ \A d \in Descriptions : Rejected(add_violation_type(Self, n, p, d))
              /\ Rejected(update_violation_patterns(Self, n, p))

\* a call failed on a pattern that does not compile while results were cached
C2_Witness ==
    /\ last.op \in {"set_custom_patterns", "add_violation_type", "update_violation_patterns"}
    /\ last.ret = "False"
    /\ last.err = "invalid regular expression"
    /\ violation_cache # EmptyDict

\* C3: every pattern stored in the registry compiles, from construction on.
C3_StoredPatternsCompile ==
    \A n \in DOMAIN violation_patterns : \A i \in DOMAIN violation_patterns[n] :
        ReCompiles(violation_patterns[n][i])

\* names are not blank and every pattern is a string that compiles
WellFormed(m) ==
    \A n \in DOMAIN m :
        /\ ~IsBlank(n)
        /\ \A i \in DOMAIN m[n] : IsInstanceStr(m[n][i]) /\ ReCompiles(m[n][i])

\* C4: set_custom_patterns of a well-formed map succeeds, and
\* get_current_patterns then returns that map, whatever the registry held.
C4_SetThenGetRoundTrip ==
    \A m \in PatternMaps :
        WellFormed(m) =>
            \A out \in {set_custom_patterns(Self, m)} :
                out.ret = "True" /\ get_current_patterns(out.self) = m

\* set_custom_patterns succeeded with a map of two categories, one of them
\* with two patterns
C4_Witness ==
    /\ last.op = "set_custom_patterns"
    /\ last.ret = "True"
    /\ Cardinality(DOMAIN violation_patterns) = 2
    /\ \E n \in DOMAIN violation_patterns : Len(violation_patterns[n]) = 2

\* C5: with no mutation in between, parse_reason of a text returns the same
\* categories the second time (from the cache) as the first time.
C5_ParseTwiceSame ==
    \A t \in Texts : \A j1 \in JiebaOutcomes(t) : \A j2 \in JiebaOutcomes(t) :
        \A first \in {parse_reason(Self, t, j1)} :
            parse_reason(first.self, t, j2).cats = first.cats

\* parse_reason returned a cached set that only the keyword pass finds: a
\* second call whose tokenizer raises would compute another set
C5_Witness ==
    /\ last.op = "parse_reason"
    /\ \E t \in Texts :
          /\ Hash(t) \in DOMAIN violation_cache
          /\ violation_cache[Hash(t)] # {}
          /\ Classify(violation_patterns, is_using_custom_patterns, t,
                      [raised |-> TRUE, words |-> <<>>]) = {}

\* C6: add_violation_type fails for a name the registry already has, and then
\* changes neither the category's patterns, nor its description, nor the flag,
\* nor the cache.
C6_AddRejectsExistingName ==
    [][last'.op = "add_violation_type" =>
          \A n \in DOMAIN violation_patterns : \A p \in PatternLists : \A d \in Descriptions :
              IsCall("add_violation_type", add_violation_type(Self, n, p, d)) =>
                  StepRejected /\ UNCHANGED custom_descriptions]_vars

\* C7: set_custom_patterns, add_violation_type and update_violation_patterns
\* reject an empty pattern list and leave the registry unchanged, so no
\* mutation leaves a category without patterns.
C7_EmptyListRejected ==
    [][/\ last'.op = "set_custom_patterns" =>
             \A m \in PatternMaps :
                 ((\E n \in DOMAIN m : m[n] = <<>>)
                      /\ IsCall("set_custom_patterns", set_custom_patterns(Self, m)))
                     => StepRejected
       /\ last'.op = "add_violation_type" =>
             \A n \in InputNames : \A d \in Descriptions :
                 IsCall("add_violation_type", add_violation_type(Self, n, <<>>, d))
                     => StepRejected
       /\ last'.op = "update_violation_patterns" =>
             \A n \in InputNames :
                 IsCall("update_violation_patterns", update_violation_patterns(Self, n, <<>>))
                     => StepRejected
       /\ (last'.op \in {"set_custom_patterns", "add_violation_type",
                         "update_violation_patterns"} /\ last'.ret = "True") =>
             \A n \in DOMAIN violation_patterns' :
                 \/ violation_patterns'[n] # <<>>
                 \/ (n \in DOMAIN violation_patterns
                        /\ violation_patterns[n] = violation_patterns'[n])]_vars

\* C8: remove_violation_type of an absent name fails and changes nothing; of a
\* present name it succeeds, removes that category and no other, and clears
\* the cache.
C8_RemoveContract ==
    [][last'.op = "remove_violation_type" =>
          \A n \in InputNames :
              IsCall("remove_violation_type", remove_violation_type(Self, n)) =>
                  IF n \notin DOMAIN violation_patterns
                  THEN /\ last'.ret = "False"
                       /\ UNCHANGED <<violation_patterns, custom_descriptions,
                                      is_using_custom_patterns, violation_cache>>
                  ELSE /\ last'.ret = "True"
                       /\ violation_patterns' = DictDel(violation_patterns, n)
                       /\ violation_cache' = EmptyDict]_vars

\* C9: update_violation_patterns of an absent name fails and does not create
\* it; of a present name with valid patterns it makes the category's list the
\* given one, keeps the other categories and the set of names, and clears the
\* cache.
C9_UpdateContract ==
    \A n \in InputNames : \A p \in PatternLists :
        \A out \in {update_violation_patterns(Self, n, p)} :
            IF n \notin DOMAIN violation_patterns
            THEN out.ret = "False" /\ out.self.vp = violation_patterns
            ELSE PatternListError(p) = "" =>
                    /\ out.ret = "True"
                    /\ DOMAIN out.self.vp = DOMAIN violation_patterns
                    /\ out.self.vp[n] = p
                    /\ \A o \in (DOMAIN violation_patterns) \ {n} :
                          out.self.vp[o] = violation_patterns[o]
                    /\ out.self.cache = EmptyDict

\* update_violation_patterns succeeded on a registry of two categories
C9_Witness ==
    /\ last.op = "update_violation_patterns"
    /\ last.ret = "True"
    /\ Cardinality(DOMAIN violation_patterns) = 2

\* C10: after reset_to_default_patterns, whatever came before,
\* get_current_patterns is the built-in rule set, the flag is false, no custom
\* description is left and the cache is empty; the call does not fail.
C10_ResetRestoresDefaults ==
    last.op = "reset_to_default_patterns" =>
        /\ last.ret = "None" /\ last.err = ""
        /\ get_current_patterns(Self) = VIOLATION_PATTERNS
        /\ ~is_using_custom_patterns
        /\ custom_descriptions.kind # "null"
        /\ custom_descriptions.map = EmptyDict
        /\ violation_cache = EmptyDict

\* a reset on a parser that has had a custom category (jieba still knows its
\* name) and custom descriptions
C10_Witness ==
    /\ last.op = "reset_to_default_patterns"
    /\ CustomName \in jieba_words
    /\ custom_descriptions.kind = "dict"
    /\ violation_patterns = VIOLATION_PATTERNS

\* C11: on a cache miss parse_reason of a non-blank text returns the union of
\* the regex pass, the keyword pass and the semantic pass: what any one pass
\* finds is in the result, and nothing else is.
C11_ResultIsUnionOfPasses ==
    \A t \in ClassifyTexts : \A j \in JiebaOutcomes(t) :
        (~IsBlank(t) /\ Hash(t) \notin DOMAIN violation_cache) =>
            \A out \in {parse_reason(Self, t, j)} :
                /\ RegexPass(violation_patterns, t) \subseteq out.cats
                /\ KeywordPass(violation_patterns, is_using_custom_patterns, t, j)
                       \subseteq out.cats
                /\ SemanticPass(violation_patterns, is_using_custom_patterns, t)
                       \subseteq out.cats
                /\ \A n \in out.cats :
                      \/ n \in RegexPass(violation_patterns, t)
                      \/ n \in KeywordPass(violation_patterns, is_using_custom_patterns, t, j)
                      \/ n \in SemanticPass(violation_patterns, is_using_custom_patterns, t)

\* parse_reason has returned, under custom patterns, a category none of whose
\* patterns hits the text: only the keyword pass finds it
C11_Witness ==
    /\ last.op = "parse_reason"
    /\ is_using_custom_patterns
    /\ \E t \in ClassifyTexts :
          /\ Hash(t) \in DOMAIN violation_cache
          /\ last.cats = violation_cache[Hash(t)]
          /\ \E n \in last.cats :
                /\ n \notin RegexPass(violation_patterns, t)
                /\ n \notin SemanticPass(violation_patterns, TRUE, t)

\* C12: for an empty or whitespace-only text parse_reason and
\* extract_violation_details return an empty list without raising, without
\* running a pass (nothing is logged even when the tokenizer would raise) and
\* without touching the cache, whatever the registry holds.
C12_BlankTextGivesNothing ==
    \A t \in ClassifyTexts : IsBlank(t) =>
        \A j \in JiebaOutcomes(t) \cup JiebaOutcomes(<<"a", "b">>) :
            /\ parse_reason(Self, t, j) = Outcome(Self, "list", "", {})
            /\ \A order \in Orders :
                  extract_violation_details(Self, t, j, order) = Outcome(Self, "list", "", {})

\* extract_violation_details was called with a whitespace-only text on a
\* parser that has patterns and cached results
C12_Witness ==
    /\ last.op = "extract_violation_details"
    /\ last.text = <<" ">>
    /\ violation_cache # EmptyDict
    /\ \E n \in DOMAIN violation_patterns : violation_patterns[n] # <<>>

\* C13: every detail record extract_violation_details returns, whichever pass
\* matched its category, has a confidence above 0 and at most 1; the
\* confidence is 1 when the category has one pattern and it hits the text.
C13_ConfidenceBounds ==
    (last.op = "extract_violation_details" /\ last.ret = "list") =>
        \A d \in last.cats :
            /\ d.confidence.num > 0
            /\ d.confidence.num <= d.confidence.den
            /\ (/\ d.type \in DOMAIN violation_patterns
                /\ Len(violation_patterns[d.type]) = 1
                /\ ReSearch(violation_patterns[d.type][1], last.text) = "match")
                  => d.confidence.num = d.confidence.den

\* C14: the confidence of a category whose pattern list is empty is 0, a
\* value and not an exception.
C14_EmptyListConfidenceZero ==
    last.op = "_calculate_confidence" =>
        \A d \in last.cats :
            (d.type \in DOMAIN violation_patterns /\ violation_patterns[d.type] = <<>>) =>
                last.ret = "float" /\ d.confidence.num = 0

\* C18: when the tokenizer fails during the keyword pass, parse_reason still
\* returns, and the keyword pass still matches every category one of whose
\* keywords is a substring of the lower-cased text.
C18_TokenizerFailureDegrades ==
    (last.op = "parse_reason" /\ last.err = "keyword matching failed") =>
        /\ last.ret = "list"
        /\ \A mapping \in {KeywordMapping(violation_patterns, is_using_custom_patterns)} :
              \A n \in DOMAIN mapping :
                  (\E k \in mapping[n] : Contains(Lower(last.text), k)) => n \in last.cats

\* the patterns of a category that compile
Compilable(patterns) == SelectSeq(patterns, ReCompiles)

\* C19: a pattern that raises a regular-expression error is skipped alone:
\* parse_reason returns normally, the regex pass finds every category that
\* has a compilable pattern hitting the text (after the failing pattern, in
\* the same or another category), and the keyword and semantic passes run.
C19_RegexErrorSkipsOnePattern ==
    \A t \in ClassifyTexts : \A j \in JiebaOutcomes(t) :
        (~IsBlank(t) /\ Hash(t) \notin DOMAIN violation_cache) =>
            \A out \in {parse_reason(Self, t, j)} :
                /\ out.ret = "list"
                /\ \A n \in DOMAIN violation_patterns :
                      (\E i \in DOMAIN Compilable(violation_patterns[n]) :
                          ReSearch(Compilable(violation_patterns[n])[i], t) = "match")
                          => n \in RegexPass(violation_patterns, t) /\ n \in out.cats
                /\ KeywordPass(violation_patterns, is_using_custom_patterns, t, j)
                       \subseteq out.cats
                /\ \A n \in DOMAIN violation_patterns :
                      (is_using_custom_patterns
                       /\ \E i \in DOMAIN Compilable(violation_patterns[n]) :
                             /\ HasGap(Compilable(violation_patterns[n])[i])
                             /\ ReSearch(Compilable(violation_patterns[n])[i], t) = "match")
                          => n \in SemanticPass(violation_patterns, TRUE, t)

\* parse_reason has returned a category whose first pattern raises re.error
\* and whose second pattern hits the text, which the other passes do not find
C19_Witness ==
    /\ last.op = "parse_reason"
    /\ last.err = ""
    /\ \E n \in last.cats :
          /\ n \in DOMAIN violation_patterns
          /\ n \notin SemanticPass(violation_patterns, is_using_custom_patterns, last.text)
          /\ \A k \in UNION {Range(ExtractKeywords(violation_patterns[n][i])) :
                              i \in DOMAIN violation_patterns[n]} :
                 ~Contains(Lower(last.text), k)
          /\ Len(violation_patterns[n]) = 2
          /\ ReSearch(violation_patterns[n][1], last.text) = "error"
          /\ ReSearch(violation_patterns[n][2], last.text) = "match"

\* documents whose patterns set_custom_patterns rejects at the last category
\* only, or for a blank name, and which bring descriptions
MalformedDocuments ==
    {[kind |-> "rules", patterns |-> m,
      descriptions |-> DescDict([n \in {SheHuang} |-> "a custom type"])] :
        m \in {[n \in Names |-> IF n = CustomName THEN <<PatInvalid>> ELSE <<PatGap>>],
               [n \in {CustomName, BlankName} |-> <<PatGap>>]}}

\* C20: a load_custom_patterns that returns failure (no file, no document, no
\* patterns field, an invalid pattern or a malformed category) leaves the
\* pattern map, the descriptions, the flag and the cache as they were.
C20_FailedLoadChangesNothing ==
    \A doc \in Documents \cup MalformedDocuments :
        \A out \in {load_custom_patterns(Self, doc)} :
            out.ret # "True" =>
                /\ out.ret = "False"
                /\ out.self.vp = violation_patterns
                /\ out.self.desc = custom_descriptions
                /\ out.self.custom = is_using_custom_patterns
                /\ out.self.cache = violation_cache

\* a load failed on an invalid pattern while the parser had descriptions and
\* cached results
C20_Witness ==
    /\ last.op = "load_custom_patterns"
    /\ last.ret = "False"
    /\ last.err = "invalid regular expression"
    /\ custom_descriptions.kind = "dict"
    /\ custom_descriptions.map # EmptyDict
    /\ violation_cache # EmptyDict

\* the rule sets a parser is in before and after the mutations that have
\* started, when at most one has
SettledRuleSets ==
    {RuleSet(in_flight.base)}
        \cup (IF in_flight.w1.op # "" /\ in_flight.w2.op = ""
              THEN {RuleSet(Serial(in_flight.w1.op, in_flight.base))} ELSE {})

\* C15: a parse_reason that runs while a mutation runs reads one rule set in
\* all three passes, the one before the mutation or the one after it: never
\* the pattern map of one with the flag or the pattern map of the other.
C15_ParseReadsOneRuleSet ==
    (in_flight.reader.pc \in {"store", "done"} /\ in_flight.w2.op = "") =>
        \E q \in SettledRuleSets :
            \A i \in DOMAIN in_flight.reader.seen : in_flight.reader.seen[i] = q

\* the pattern map, the flag and the descriptions of a parser
Registry(self) == [vp |-> self.vp, custom |-> self.custom, desc |-> self.desc]

\* C16: when two mutations have run concurrently, the pattern map, the flag
\* and the descriptions are those of the two mutations run one after the
\* other, in one order or the other.
C16_ConcurrentMutationsSerialize ==
    (Returned("w1") /\ Returned("w2")) =>
        Registry(Self) \in
            {Registry(Serial(in_flight.w2.op, Serial(in_flight.w1.op, in_flight.base))),
             Registry(Serial(in_flight.w1.op, Serial(in_flight.w2.op, in_flight.base)))}

\* C17: once a mutation has returned, the cache holds no result that
\* parse_reason computed from the rule set of before the mutation.
C17_NoStaleEntryAfterMutation ==
    (/\ Returned("w1") /\ in_flight.w2.op = ""
     /\ in_flight.reader.pc = "done"
     /\ \A i \in DOMAIN in_flight.reader.seen :
            in_flight.reader.seen[i] = RuleSet(in_flight.base)
     /\ RuleSet(Self) # RuleSet(in_flight.base))
        => Hash(in_flight.reader.text) \notin DOMAIN violation_cache

\* C23: every category parse_reason returns is a category of the registry as
\* it is then; a category remove_violation_type has removed is not reported
\* by a later classification.
C23_ReportedCategoriesAreRegistered ==
    last.op = "parse_reason" => last.cats \subseteq DOMAIN violation_patterns

\* C24: is_using_custom_patterns is false only while the pattern map is the
\* built-in one: when the map differs from the defaults, get_pattern_info
\* reports is_using_custom_patterns true.
C24_FlagFalseOnlyOnDefaults ==
    get_current_patterns(Self) # VIOLATION_PATTERNS =>
        get_pattern_info(Self).is_using_custom_patterns

\* C25: every category that has a custom description is a category of the
\* pattern map, so a category created again under an old name does not take
\* up a description left behind.
C25_DescriptionsOfRegisteredOnly ==
    DOMAIN custom_descriptions.map \subseteq DOMAIN violation_patterns

\* C29: under custom patterns the semantic pass finds no category the regex
\* pass has not found, for any text, so that parse_reason returns the union
\* of the regex pass and the keyword pass.
C29_SemanticAddsNothingWhenCustom ==
    is_using_custom_patterns =>
        \A t \in ClassifyTexts :
            /\ SemanticPass(violation_patterns, is_using_custom_patterns, t)
                   \subseteq RegexPass(violation_patterns, t)
            /\ \A j \in JiebaOutcomes(t) :
                  (~IsBlank(t) /\ Hash(t) \notin DOMAIN violation_cache) =>
                      parse_reason(Self, t, j).cats =
                          RegexPass(violation_patterns, t)
                              \cup KeywordPass(violation_patterns, is_using_custom_patterns, t, j)

\* parse_reason has returned, under custom patterns, a category that the
\* semantic pass finds in the text
C29_Witness ==
    /\ last.op = "parse_reason"
    /\ is_using_custom_patterns
    /\ last.err = ""
    /\ \E n \in last.cats : n \in SemanticPass(violation_patterns, TRUE, last.text)

\* C21: after every successful mutation of the registry the tokenizer knows
\* the built-in terms, the name of every category and the keywords of every
\* pattern of the registry as it is then; after update_violation_patterns it
\* knows the keywords of the new patterns.
C21_VocabularyRebuilt ==
    Succeeded(last) => InitJiebaWords({}, violation_patterns) \subseteq jieba_words

\* C26: a parser that loads the file another parser has saved is equivalent
\* to that parser as it was when it saved (the file records its pattern map,
\* descriptions and flag): the load succeeds, the pattern map, the
\* descriptions and is_using_custom_patterns are the saved ones, and every
\* text is classified as the saving parser classified it, also when the
\* saving parser was using the built-in rule set.
C26_SaveLoadRoundTrip ==
    (last.op = "peer.load_custom_patterns" /\ pattern_file.kind = "rules") =>
        /\ last.ret = "True"
        /\ get_current_patterns(peer.parser) = pattern_file.patterns
        /\ peer.parser.desc.map = pattern_file.descriptions.map
        /\ peer.parser.custom = pattern_file.is_custom
        /\ \A t \in PeerTexts : \A j \in JiebaOutcomes(t) :
              parse_reason(Peer, t, j).cats =
                  Classify(pattern_file.patterns, pattern_file.is_custom, t, j)

\* C27: a mutation of one parser changes neither the other parser's
\* get_current_patterns nor what the other parser's parse_reason returns for
\* any text, also when both were constructed from the same custom_patterns
\* map.
C27_PeersIsolated ==
    [][last'.op \in Mutations =>
          /\ get_current_patterns(peer'.parser) = get_current_patterns(peer.parser)
          /\ \A t \in PeerTexts : \A j \in JiebaOutcomes(t) :
                parse_reason(peer'.parser, t, j).cats = parse_reason(peer.parser, t, j).cats]_vars

\* C22: the evidence of a category for a text is made of at most three
\* contexts of matches, pairwise distinct, in the order of the pattern list,
\* joined by the delimiter; it is empty when no pattern of the category hits
\* the text or the category is not in the registry.
C22_EvidenceWindows ==
    \A t \in EvidenceTexts : \A n \in Names :
        LET evidence == _extract_evidence(Self, t, n)
            \* <<i, k>> is match k of pattern i of the category
            matches ==
                IF n \notin DOMAIN violation_patterns THEN {}
                ELSE {x \in (DOMAIN violation_patterns[n]) \X (1..(Len(t) + 1)) :
                         x[2] <= Len(ReFindIter(violation_patterns[n][x[1]], t).spans)}
            \* the context of match x
            MatchContext(x) ==
                Context(t, ReFindIter(violation_patterns[n][x[1]], t).spans[x[2]])
            \* match x is of an earlier pattern of the list than match y, or
            \* an earlier match of the same pattern
            MatchBefore(x, y) == x[1] < y[1] \/ (x[1] = y[1] /\ x[2] < y[2])
            delimiter == <<" ", "|", " ">>
        IN  /\ \/ evidence = <<>>
               \/ \E x \in matches : evidence = MatchContext(x)
               \/ \E x \in matches : \E y \in matches :
                     /\ MatchBefore(x, y)
                     /\ MatchContext(x) # MatchContext(y)
                     /\ evidence = MatchContext(x) \o delimiter \o MatchContext(y)
               \/ \E x \in matches : \E y \in matches : \E z \in matches :
                     /\ MatchBefore(x, y) /\ MatchBefore(y, z)
                     /\ MatchContext(x) # MatchContext(y)
                     /\ MatchContext(x) # MatchContext(z)
                     /\ MatchContext(y) # MatchContext(z)
                     /\ evidence = MatchContext(x) \o delimiter \o MatchContext(y)
                                       \o delimiter \o MatchContext(z)
            /\ (\/ n \notin DOMAIN violation_patterns
                \/ \A i \in DOMAIN violation_patterns[n] :
                      ReSearch(violation_patterns[n][i], t) # "match")
                  => evidence = <<>>

\* _extract_evidence has returned three contexts for a text in which the
\* category's patterns have more than three distinct ones, the list holding
\* the same pattern twice
C22_Witness ==
    /\ last.op = "_extract_evidence"
    /\ last.type \in DOMAIN violation_patterns
    /\ Len(violation_patterns[last.type]) = 2
    /\ violation_patterns[last.type][1] = violation_patterns[last.type][2]
    /\ Len(EvidenceParts(<<>>, last.text, violation_patterns[last.type], 1)) > MaxEvidence
    /\ Len(last.evidence) > 2 * Len(EvidenceDelimiter)

\* C28: get_violation_statistics counts under violation_counts[c] the texts
\* of its list that are not empty and whose parse_reason result (which the
\* cache holds after the call) has c, and no pattern_matches[c][p] is above
\* violation_counts[c], also when a pattern list holds the same pattern more
\* than once.
C28_StatisticsCounts ==
    last.op = "get_violation_statistics" =>
        \A statistics \in last.cats :
            LET count(c) == IF c \in DOMAIN statistics.violation_counts
                            THEN statistics.violation_counts[c] ELSE 0
            IN  /\ \A c \in Names \cup DOMAIN statistics.violation_counts :
                      count(c) =
                          Cardinality({i \in DOMAIN last.texts :
                                          /\ last.texts[i] # <<>>
                                          /\ \A j \in JiebaOutcomes(last.texts[i]) :
                                                c \in parse_reason(Self, last.texts[i], j).cats})
                /\ \A c \in DOMAIN statistics.pattern_matches :
                      \A p \in DOMAIN statistics.pattern_matches[c] :
                          statistics.pattern_matches[c][p] <= count(c)

\* C30: when jieba.lcut succeeds, _keyword_matching returns the same set
\* however the text is cut into words, and that set is the set of categories
\* with a keyword that is a substring of the lower-cased text.
C30_SegmentationIndependent ==
    (last.op = "_keyword_matching" /\ ~last.jieba.raised) =>
        LET mapping == KeywordMapping(violation_patterns, is_using_custom_patterns)
        IN  /\ last.cats = {n \in DOMAIN mapping :
                               \E k \in mapping[n] : Contains(Lower(last.text), k)}
            /\ \A w \in Segmentations(last.text) :
                  KeywordPass(violation_patterns, is_using_custom_patterns, last.text,
                              [raised |-> FALSE, words |-> w]) = last.cats

\* C30, amended: the same for every text without a capital sigma, the one
\* letter str.lower() lowers by what is around it.
C30_SegmentationIndependentWithoutSigma ==
    (last.op = "_keyword_matching" /\ ~last.jieba.raised
                                   /\ "S" \notin Range(last.text)) =>
        LET mapping == KeywordMapping(violation_patterns, is_using_custom_patterns)
        IN  /\ last.cats = {n \in DOMAIN mapping :
                               \E k \in mapping[n] : Contains(Lower(last.text), k)}
            /\ \A w \in Segmentations(last.text) :
                  KeywordPass(violation_patterns, is_using_custom_patterns, last.text,
                              [raised |-> FALSE, words |-> w]) = last.cats

\* a text without a capital sigma cut into more than one word, one of which
\* is a keyword of a category returned
C30_Witness ==
    /\ last.op = "_keyword_matching"
    /\ ~last.jieba.raised
    /\ "S" \notin Range(last.text)
    /\ Len(last.jieba.words) > 1
    /\ \E n \in last.cats :
          \E i \in DOMAIN last.jieba.words :
              Lower(last.jieba.words[i])
                  \in KeywordMapping(violation_patterns, is_using_custom_patterns)[n]

====
